---- MODULE Spec2Model ----
(***************************************************************************)
(* Session booking workflow of the classroom portal: one browser tab of    *)
(* one signed-in user working on one session, the REST service that owns   *)
(* the session's status, and the other actors whose calls reach that       *)
(* service.  The tab shows one route at a time: the calendar page with its *)
(* session detail dialog, the teacher's session-requests page, the Focus   *)
(* One page with its request dialog.                                       *)
(***************************************************************************)
EXTENDS Integers, Sequences, FiniteSets, Bags, TLC

(***************************************************************************)
(* Bounds of the model.                                                    *)
(***************************************************************************)
\* requests in flight that the user may leave without an observer, by closing
\* the detail dialog or leaving the page, before one of them is answered
MaxOrphans == 1
\* requests of axiosInstance in flight at a time
MaxPending == 2
\* milliseconds the clock runs on after the page has loaded
MaxElapsed == 6003
\* midnights that pass while the tab is open
MaxNights == 1
\* sessions the calendar query holds
MaxSessions == 5
MaxFetches == 3
MaxTime == 1500

(***************************************************************************)
(* Program constants.                                                      *)
(***************************************************************************)
TitleMaxLength == 200
DescriptionMinLength == 10
DescriptionMaxLength == 1000
ReasonMinLength == 10
ReasonMaxLength == 500
SlotDuration == 75

(***************************************************************************)
(* Users.  s1 requested the session, t1 is the teacher assigned to it; s2  *)
(* and t2 are another student and another teacher.                         *)
(***************************************************************************)
Users == {"s1", "s2", "t1", "t2"}

requestedBy == "s1"

teacher == "t1"

\* role name of the signed-in user (user.primaryRole / user.roles)
primaryRole(u) == IF u \in {"t1", "t2"} THEN "teacher" ELSE "student"

None == "none"

\* enrollment?.type === 'focusOne' ? enrollment.enrollment.id : null
focusOneId(u) == IF u = "s1" THEN "f1" ELSE IF u = "s2" THEN "f2" ELSE None

Status == {"requested", "accepted", "rejected", "scheduled", "ongoing",
           "completed", "cancelled"}

Kinds == {"accept", "reject", "cancel", "reschedule", "request"}

Routes == {"calendar", "session-requests", "focus-one"}

\* the session lists this tab keeps in its query cache; the studentSessions
\* list of the live-sessions page is never loaded in it
Buckets == {"calendarSessions", "teacherSessionRequests"}

(***************************************************************************)
(* Text.  A string is kept as its length and the length of its trimmed     *)
(* form; trimming drops the surrounding white space.                       *)
(***************************************************************************)
Text(l, t) == [len |-> l, tlen |-> t]

EmptyText == Text(0, 0)

trim(s) == Text(s.tlen, s.tlen)

\* the auto-generated title of a student's request
autoTitle == Text(40, 40)

\* what a user may put into the title input; the input's maxLength cuts it
TitleKeyed == {Text(3, 0), Text(TitleMaxLength + 1, TitleMaxLength + 1)}

DescriptionKeyed == {Text(DescriptionMinLength + 2, DescriptionMinLength - 1),
                     Text(DescriptionMaxLength + 1, DescriptionMaxLength + 1)}

ReasonKeyed == {Text(ReasonMinLength + 2, ReasonMinLength - 1),
                Text(ReasonMaxLength + 1, ReasonMaxLength + 1)}

\* <Input maxLength={n}>: the browser keeps at most n characters of what is keyed
maxLength(s, n) ==
    IF s.len <= n THEN s ELSE Text(n, IF s.tlen <= n THEN s.tlen ELSE n)

(***************************************************************************)
(* Days and slots.  A day is a day number, Sunday being 0 modulo 7.        *)
(***************************************************************************)
NoDate == -1

NoSlot == [day |-> NoDate, startTime |-> 0, endTime |-> 0]

\* the day the session is booked for
sessionDay == 8

Days == {sessionDay, sessionDay + 1}

AvailableSlot(d, s) == [day |-> d, startTime |-> s, endTime |-> s + SlotDuration]

today == sessionDay - 3

\* the days on which every teacher is booked out
FullDays == {today + 1, sessionDay + 1}

\* slots the service offers for a day: none on a full day
ServerSlots(d) ==
    IF d \in FullDays THEN {} ELSE {AvailableSlot(d, 540)}

\* focusOne.startedAt: the program started days ago, starts tomorrow, or
\* starts on the Monday after
ProgramStarts == {today - 4, today + 1, today + 3}

Subjects == {"sub1"}

SESSION_REVOKED_CODE == "AUTH_1011"

SESSION_NOTICE_COOLDOWN_MS == 2000

\* Date.now() when the page loads: a time later than the cooldown after 1970
pageLoad == SESSION_NOTICE_COOLDOWN_MS + 1

\* the time that passes between two events: just less than the cooldown, the
\* cooldown, just more
Ticks == {SESSION_NOTICE_COOLDOWN_MS - 1, SESSION_NOTICE_COOLDOWN_MS,
          SESSION_NOTICE_COOLDOWN_MS + 1}

\* status and error code of the answers the service gives
Statuses == {200, 401, 409}
Codes == {SESSION_REVOKED_CODE, "AUTH_1001"}

\* a public route with the login form, another public route, a protected route
Paths == {"/login", "/signup", "/app"}

NoResponse == [status |-> 0, code |-> None]

\* 75 * 60 * 1000 ms of TeacherScheduleSessionDialog, in minutes
ScheduleDuration == 75
DebounceDelay == 500

\* instants are seconds since the epoch, in UTC
Minute == 60
DaySeconds == 24 * 60 * Minute

\* date.toISOString(): the UTC date and the UTC time of day of the instant
toISOString(t) == [date |-> t \div DaySeconds, time |-> t % DaySeconds]

\* new Date(iso): the instant of an ISO string
parse(iso) == iso.date * DaySeconds + iso.time

\* the ISO string a is of a later instant than the ISO string b
After(a, b) == a.date > b.date \/ (a.date = b.date /\ a.time > b.time)

\* getTimezoneOffset() of the browser in minutes: India, UTC, New York
Offsets == {0 - 330, 0, 300}

\* the times of day a slot or a session starts at, in minutes: 00:00, 09:00,
\* 22:45 and 23:59
StartMinutes == {0, 540, 1365, 1439}

\* the slots the service answers with, as ISO strings: a slot lasts the
\* duration that was asked for
IsoSlots ==
    {[startTime |-> toISOString((d * 1440 + m) * Minute),
      endTime |-> toISOString((d * 1440 + m + SlotDuration) * Minute)] :
         d \in Days, m \in StartMinutes}

\* selectedDate and selectedTime of TeacherScheduleSessionDialog, either may
\* be empty, with the clock and the time zone of the browser
ScheduleForms ==
    [kind : {"schedule"}, selectedDate : Days \cup {NoDate},
     selectedTime : StartMinutes \cup {NoDate}, offset : Offsets,
     clock : {(sessionDay * 1440 + m) * Minute + sec :
                  m \in {540, 1439}, sec \in {0, 59}}]

\* the slot selected in the request dialog or in the reschedule dialog
SlotForms == [kind : {"request", "reschedule"}, slot : IsoSlots]

NoForm == [kind |-> None]

NoPayload == <<>>

\* the sessions the calendar query can hold, in the order of the answer
SessionIds == 1..MaxSessions

\* the days of two cells of the month grid
CellDays == {sessionDay, sessionDay + 1}

NoDaySessions == [date |-> NoDate, sessions |-> {}]

\* the users the auth store can hold: logged out, two students, a teacher
AuthUsers == {None, "s1", "s2", "t1"}

\* user?.enrollmentType: a student has one, a teacher has none
enrollmentType(u) == IF u \in {"s1", "s2"} THEN "focusOne" ELSE None

\* the texts of the search box
Texts == {"", "a", "ab", "ab "}

\* the steps of the clock in ms
Steps == {250, 500}

\* the pages of the list
ListPages == {1, 2}

\* the answers of getMyEnrollment: data, no data, a rejection
Outcomes == {"data", "null", "error"}

\* SessionDetailDialog, DaySessionsDialog and the list of LiveSessionsPage
Views == {"detail", "day", "list"}

\* a session as the views get it: its status, the day of its startTime and
\* whether it has a meetingLink
SessionProps ==
    [status : Status, startTime : {today, today + 1}, meetingLink : BOOLEAN]

NoProp == [status |-> None, startTime |-> NoDate, meetingLink |-> FALSE]

(***************************************************************************)
(* State.                                                                  *)
(***************************************************************************)
VARIABLES
    user,             \* the signed-in user of the tab
    srvStatus,        \* the session's status at the service
    srvDecisions,     \* accept/reject calls that took effect at the service
    route,            \* the route the tab shows
    cache,            \* query cache: bucket -> [data, invalid]
    selectedSession,  \* CalendarPage: the session handed to the detail dialog
    detail,           \* SessionDetailDialog: its useState values
    slotsQuery,       \* the availableSlots query of the mounted dialog
    page,             \* TeacherSessionRequestsPage: its useState values
    request,          \* RequestSessionDialog: its useState values
    net,              \* bag of the mutation requests in flight
    toasts            \* toasts raised by the step just taken

\* lib/http/axios.ts and the page it runs in
VARIABLES
    now,                            \* Date.now()
    lastSessionRevocationNoticeAt,  \* module variable of axios.ts
    token,                          \* authStore holds a session
    pathname,                       \* window.location.pathname
    timers,                         \* pending setTimeout callbacks of the interceptor
    outstanding,                    \* requests of axiosInstance in flight
    stored,                         \* sessionStorage holds the revocation message
    notices,                        \* times of the revocation toasts of this page load
    activeOverlayRequests,          \* the counter of the request interceptor
    loadingListeners,               \* a LoadingOverlayProvider has subscribed
    isVisible,                      \* LoadingOverlayProvider: useState
    overlayPending,                 \* requests in flight with showLoadingOverlay
    response                        \* the response the interceptor handled in the step just taken

\* the views that show the link to the meeting of a session
VARIABLES
    clock,            \* the day of new Date()
    listed,           \* the session as the last fetch of the lists brought it
    view,             \* the view that shows the session, None when none is open
    prop,             \* the session object the open view renders
    isSessionToday,   \* SessionDetailDialog: the value its useMemo holds
    joinLink          \* the open view, as last rendered, shows the link

\* MonthView and the dialog of the sessions of a day
VARIABLES
    sessions,             \* the sessions prop of MonthView: session -> its day
    selectedDaySessions   \* CalendarPage: the day and list handed to DaySessionsDialog

\* the start and end time of the requests that create or move a session
VARIABLES
    form,      \* what the submitting dialog holds: a slot, or date, time and clock
    payload    \* startTime and endTime of the request the dialog has sent

\* useEnrollment: one instance of the hook and the requests it has made
VARIABLES
    authUser,        \* useAuthStore: the user, None when logged out
    mounted,         \* the component of the hook: "new", "mounted", "unmounted"
    enrollment,      \* useState: None, or the user whose enrollment it holds
    loading,         \* useState
    error,           \* useState: None or "error"
    isMountedRef,    \* useRef
    isFetchingRef,   \* useRef
    fetches,         \* the calls of fetchEnrollment: user, cancelled, settled
    cleanup          \* the fetch whose cleanup the last effect run returned, or 0

\* the search box of TeacherSessionRequestsPage and of LiveSessionsPage
VARIABLES
    msNow,                   \* the clock of the page in ms
    lastInputAt,            \* when the search box last changed
    searchQuery,            \* useState: the text of the search box
    debouncedSearchQuery,   \* useState
    listPage,               \* useState: page
    timers500,              \* the timeouts that are set: due and text
    timer,                  \* the timeout of the last run of the effect
    querySearch             \* params.search of the list query last dispatched

srvVars == <<srvStatus, srvDecisions>>

searchVars == <<msNow, lastInputAt, searchQuery, debouncedSearchQuery, listPage,
                timers500, timer, querySearch>>

hookVars == <<authUser, mounted, enrollment, loading, error, isMountedRef,
              isFetchingRef, fetches, cleanup>>

timeVars == <<form, payload>>

monthVars == <<sessions, selectedDaySessions>>

joinVars == <<clock, listed, view, prop, isSessionToday, joinLink>>

overlayVars == <<activeOverlayRequests, loadingListeners, isVisible, overlayPending>>

httpVars == <<now, lastSessionRevocationNoticeAt, token, pathname, timers,
              outstanding, stored, notices, response, overlayVars>>

tabVars == <<user, srvVars, route, cache, selectedSession, detail, slotsQuery,
             page, request, net, toasts>>

vars == <<tabVars, httpVars, joinVars, monthVars, timeVars, hookVars, searchVars>>

\* the state a part of the model leaves alone
notTab == <<httpVars, joinVars, monthVars, timeVars, hookVars, searchVars>>
notHttp == <<tabVars, joinVars, monthVars, timeVars, hookVars, searchVars>>
notJoin == <<tabVars, httpVars, monthVars, timeVars, hookVars, searchVars>>
notMonth == <<tabVars, httpVars, joinVars, timeVars, hookVars, searchVars>>
notTime == <<tabVars, httpVars, joinVars, monthVars, hookVars, searchVars>>
notHook == <<tabVars, httpVars, joinVars, monthVars, timeVars, searchVars>>
notSearch == <<tabVars, httpVars, joinVars, monthVars, timeVars, hookVars>>

NoSession == [status |-> None]

IdleQuery == [key |-> NoDate, status |-> "idle"]

InFlight == BagToSet(net)

(***************************************************************************)
(* The REST service (outside the repository): the state machine of the     *)
(* booking workflow.  A call that the state machine does not allow fails   *)
(* with a conflict and changes nothing.                                    *)
(***************************************************************************)
ServerAllows(kind, st) ==
    CASE kind \in {"accept", "reject"} -> st = "requested"
      [] kind \in {"cancel", "reschedule"} -> st \in {"requested", "scheduled"}
      [] OTHER -> TRUE

ServerNext(kind, st) ==
    CASE kind = "accept" -> "scheduled"
      [] kind = "reject" -> "rejected"
      [] kind = "cancel" -> "cancelled"
      [] kind = "reschedule" -> "scheduled"
      [] OTHER -> st

Decides(kind) == IF kind \in {"accept", "reject"} THEN 1 ELSE 0

\* the useState initial values of SessionDetailDialog
DetailUnmounted ==
    [isAcceptDialogOpen |-> FALSE, isRejectDialogOpen |-> FALSE,
     isCancelDialogOpen |-> FALSE, isRescheduleDialogOpen |-> FALSE,
     title |-> EmptyText, description |-> EmptyText,
     rejectionReason |-> EmptyText, cancellationReason |-> EmptyText,
     rescheduleDate |-> NoDate, selectedRescheduleSlot |-> NoSlot]

\* the useState initial values of TeacherSessionRequestsPage
PageUnmounted ==
    [selectedSession |-> NoSession, isAcceptDialogOpen |-> FALSE,
     isRejectDialogOpen |-> FALSE, title |-> EmptyText,
     description |-> EmptyText, rejectionReason |-> EmptyText]

\* the useState initial values of RequestSessionDialog
RequestClosed ==
    [open |-> FALSE, programStartDate |-> NoDate, minDate |-> NoDate,
     selectedSubject |-> None,
     selectedDate |-> NoDate, selectedSlot |-> NoSlot, errors |-> {}]

\* the page has just loaded on a protected route with a session
HttpInit ==
    /\ now = pageLoad
    /\ lastSessionRevocationNoticeAt = 0
    /\ token = TRUE
    /\ pathname = "/app"
    /\ timers = 0
    /\ outstanding = 0
    /\ stored = FALSE
    /\ notices = <<>>
    /\ response = NoResponse
    /\ activeOverlayRequests = 0
    /\ loadingListeners = FALSE
    /\ isVisible = FALSE
    /\ overlayPending = 0

\* the lists hold a session of today with a link; no view is open
JoinInit ==
    /\ clock = today
    /\ listed = [status |-> "scheduled", startTime |-> today, meetingLink |-> TRUE]
    /\ view = None
    /\ prop = NoProp
    /\ isSessionToday = FALSE
    /\ joinLink = FALSE

\* the calendar has not loaded a session; no day dialog is open
MonthInit ==
    /\ sessions = [i \in SessionIds |-> NoDate]
    /\ selectedDaySessions = NoDaySessions

\* no dialog has been filled in
TimeInit ==
    /\ form = NoForm
    /\ payload = NoPayload

\* useState and useRef of useEnrollment, before its effects have run; the
\* student s1 is logged in
HookInit ==
    /\ authUser = "s1"
    /\ mounted = "new"
    /\ enrollment = None
    /\ loading = FALSE
    /\ error = None
    /\ isMountedRef = TRUE
    /\ isFetchingRef = FALSE
    /\ fetches = <<>>
    /\ cleanup = 0

\* the page has mounted: the debounce effect has run once, with the empty text
SearchInit ==
    /\ msNow = 0
    /\ lastInputAt = 0
    /\ searchQuery = ""
    /\ debouncedSearchQuery = ""
    /\ listPage = 1
    /\ timer = [due |-> DebounceDelay, text |-> ""]
    /\ timers500 = {timer}
    /\ querySearch = ""

Init ==
    /\ user \in Users
    /\ srvStatus = "requested"
    /\ srvDecisions = 0
    /\ route = "calendar"
    /\ cache = [b \in Buckets |-> [data |-> None, invalid |-> FALSE]]
    /\ selectedSession = NoSession
    /\ detail = DetailUnmounted
    /\ slotsQuery = IdleQuery
    /\ page = PageUnmounted
    /\ request = RequestClosed
    /\ net = EmptyBag
    /\ toasts = <<>>
    /\ HttpInit
    /\ JoinInit
    /\ MonthInit
    /\ TimeInit
    /\ HookInit
    /\ SearchInit

\* another actor's accept, reject, cancel or reschedule takes effect at the service
OtherActorCall ==
    \E kind \in Kinds \ {"request"} :
        /\ ServerAllows(kind, srvStatus)
        /\ srvStatus' = ServerNext(kind, srvStatus)
        /\ srvDecisions' = srvDecisions + Decides(kind)
        /\ UNCHANGED <<notTab, user, route, cache, selectedSession, detail,
                       slotsQuery, page, request, net>>
        /\ toasts' = <<>>

(***************************************************************************)
(* Query cache.                                                            *)
(***************************************************************************)
\* useMemo isTeacher of CalendarPage and SessionDetailDialog
isTeacher == primaryRole(user) = "teacher"

\* the query a route keeps mounted
ActiveBucket(r) ==
    CASE r = "calendar" -> "calendarSessions"
      [] r = "session-requests" -> "teacherSessionRequests"
      [] OTHER -> None

\* the enabled option of the queries
Enabled(b) ==
    CASE b = "calendarSessions" -> isTeacher \/ focusOneId(user) # None
      [] OTHER -> TRUE

\* the statuses a query asks the service for
Asked(b) ==
    CASE b = "calendarSessions" /\ isTeacher ->
             {"requested", "accepted", "rejected", "scheduled"}
      [] b = "teacherSessionRequests" -> {"requested"}
      [] OTHER -> Status

\* what a fetch brings back when the service holds the session in status st:
\* the session, or a list without it.  The service is taken to list the
\* session for every user, the case the role checks of the client are for.
Fetched(b, st) ==
    IF st \notin Asked(b) THEN "absent"
    ELSE IF b = "teacherSessionRequests" /\ ~isTeacher THEN "absent"
    ELSE st

\* queryClient.invalidateQueries for a set of query keys, the service holding
\* status st: the query of the mounted page fetches again at once, a query
\* without observer is marked and fetches again when its page mounts
invalidateQueries(c, keys, st) ==
    [b \in Buckets |->
        IF b \notin keys \/ c[b].data = None THEN c[b]
        ELSE IF b = ActiveBucket(route)
        THEN [data |-> Fetched(b, st), invalid |-> FALSE]
        ELSE [c[b] EXCEPT !.invalid = TRUE]]

RECURSIVE Copies(_, _)
Copies(S, n) ==
    IF S = {} THEN 0
    ELSE LET r == CHOOSE x \in S : TRUE IN CopiesIn(r, n) + Copies(S \ {r}, n)

\* the requests of n whose component has unmounted
Orphans(n) == Copies({r \in BagToSet(n) : r.live # "dialog"}, n)

\* the bag n with the observer of the requests in S set to live
Relive(n, S, live) ==
    LET f(r) == IF r \in S THEN [r EXCEPT !.live = live] ELSE r
    IN  [t \in {f(r) : r \in BagToSet(n)} |->
            Copies({r \in BagToSet(n) : f(r) = t}, n)]

\* every component of the route unmounts: its mutations lose their observers
Orphaned(n) == Relive(n, BagToSet(n), "gone")

\* SessionDetailDialog unmounts while CalendarPage stays
DetailOrphaned(n) ==
    Relive(n, {r \in BagToSet(n) : r.live = "dialog" /\ r.origin = "detail"}, "page")

\* the query of the mounted page fetches for the first time
Refetch ==
    \E b \in Buckets :
        /\ b = ActiveBucket(route)
        /\ Enabled(b)
        /\ cache[b].data = None
        /\ cache' = [cache EXCEPT ![b] = [data |-> Fetched(b, srvStatus),
                                          invalid |-> FALSE]]
        /\ UNCHANGED <<notTab, user, srvVars, route, selectedSession, detail, slotsQuery,
                       page, request, net>>
        /\ toasts' = <<>>

\* a page mounts: its query fetches again if it was invalidated meanwhile
Mounted(c, r) ==
    [b \in Buckets |->
        IF b = ActiveBucket(r) /\ c[b].invalid
        THEN [data |-> Fetched(b, srvStatus), invalid |-> FALSE]
        ELSE c[b]]

\* the pages that show something to the user: the requests page to a
\* teacher, the Focus One page to an enrolled student, the calendar to both
Linked(u) ==
    {"calendar"} \cup (IF primaryRole(u) = "teacher" THEN {"session-requests"} ELSE {})
                 \cup (IF focusOneId(u) # None THEN {"focus-one"} ELSE {})

\* the user follows a sidebar link or the browser history
Navigate ==
    \E r \in Linked(user) \ {route} :
        /\ route' = r
        /\ selectedSession' = NoSession
        /\ detail' = DetailUnmounted
        /\ page' = PageUnmounted
        /\ request' = RequestClosed
        /\ slotsQuery' = IdleQuery
        /\ Orphans(Orphaned(net)) <= MaxOrphans
        /\ net' = Orphaned(net)
        /\ cache' = Mounted(cache, r)
        /\ UNCHANGED <<notTab, user, srvVars>>
        /\ toasts' = <<>>

(***************************************************************************)
(* CalendarPage and SessionDetailDialog.                                   *)
(***************************************************************************)
\* a modal dialog keeps everything under it from being operated
CalendarInteractive == route = "calendar" /\ selectedSession = NoSession

NoSubDialogOpen ==
    /\ ~detail.isAcceptDialogOpen
    /\ ~detail.isRejectDialogOpen
    /\ ~detail.isCancelDialogOpen
    /\ ~detail.isRescheduleDialogOpen

DetailInteractive == selectedSession # NoSession /\ NoSubDialogOpen

\* useMutation().isPending of the mounted component
isPending(kind, origin) ==
    \E r \in InFlight : r.kind = kind /\ r.origin = origin /\ r.live = "dialog"

isStudent == requestedBy = user

canCancelOrReschedule_AnyTeacher == isStudent \/ isTeacher

canCancelOrReschedule == isStudent \/ (isTeacher /\ teacher = user)

showAcceptRejectButtons_AnyStatus == isTeacher

showAcceptRejectButtons == isTeacher /\ selectedSession.status = "requested"

showCancelRescheduleButtons_AnyStatus == canCancelOrReschedule

showCancelRescheduleButtons ==
    canCancelOrReschedule /\ selectedSession.status \in {"requested", "scheduled"}

\* onSessionClick={setSelectedSession}: the clicked event carries the cached session
onSessionClick ==
    /\ CalendarInteractive
    /\ cache["calendarSessions"].data \in Status
    /\ selectedSession' = [status |-> cache["calendarSessions"].data]
    /\ detail' = DetailUnmounted
    /\ UNCHANGED <<notTab, user, srvVars, route, cache, slotsQuery, page, request, net>>
    /\ toasts' = <<>>

\* onOpenChange(false) of the detail dialog: CalendarPage drops the session
onOpenChange ==
    /\ DetailInteractive
    /\ selectedSession' = NoSession
    /\ detail' = DetailUnmounted
    /\ Orphans(DetailOrphaned(net)) <= MaxOrphans
    /\ net' = DetailOrphaned(net)
    /\ UNCHANGED <<notTab, user, srvVars, route, cache, slotsQuery, page, request>>
    /\ toasts' = <<>>

openAcceptDialog_AlsoReject ==
    /\ DetailInteractive
    /\ showAcceptRejectButtons
    /\ ~(isPending("accept", "detail") \/ isPending("reject", "detail"))
    /\ detail' = [detail EXCEPT !.title = autoTitle, !.description = EmptyText,
                                !.isAcceptDialogOpen = TRUE,
                                !.isRejectDialogOpen = TRUE]
    /\ UNCHANGED <<notTab, user, srvVars, route, cache, selectedSession, slotsQuery, page,
                   request, net>>
    /\ toasts' = <<>>

\* openAcceptDialog: the inputs start from the session's title and description
openAcceptDialog ==
    /\ DetailInteractive
    /\ showAcceptRejectButtons
    /\ ~(isPending("accept", "detail") \/ isPending("reject", "detail"))
    /\ detail' = [detail EXCEPT !.title = autoTitle, !.description = EmptyText,
                                !.isAcceptDialogOpen = TRUE]
    /\ UNCHANGED <<notTab, user, srvVars, route, cache, selectedSession, slotsQuery, page,
                   request, net>>
    /\ toasts' = <<>>

openRejectDialog ==
    /\ DetailInteractive
    /\ showAcceptRejectButtons
    /\ ~(isPending("accept", "detail") \/ isPending("reject", "detail"))
    /\ detail' = [detail EXCEPT !.rejectionReason = EmptyText,
                                !.isRejectDialogOpen = TRUE]
    /\ UNCHANGED <<notTab, user, srvVars, route, cache, selectedSession, slotsQuery, page,
                   request, net>>
    /\ toasts' = <<>>

openCancelDialog ==
    /\ DetailInteractive
    /\ showCancelRescheduleButtons
    /\ ~(isPending("cancel", "detail") \/ isPending("reschedule", "detail"))
    /\ detail' = [detail EXCEPT !.cancellationReason = EmptyText,
                                !.isCancelDialogOpen = TRUE]
    /\ UNCHANGED <<notTab, user, srvVars, route, cache, selectedSession, slotsQuery, page,
                   request, net>>
    /\ toasts' = <<>>

\* openRescheduleDialog: the date input starts at the session's day
openRescheduleDialog ==
    /\ DetailInteractive
    /\ showCancelRescheduleButtons
    /\ ~(isPending("cancel", "detail") \/ isPending("reschedule", "detail"))
    /\ detail' = [detail EXCEPT !.rescheduleDate = sessionDay,
                                !.selectedRescheduleSlot = NoSlot,
                                !.isRescheduleDialogOpen = TRUE]
    /\ slotsQuery' = IF focusOneId(user) # None
                     THEN [key |-> sessionDay, status |-> "loading"]
                     ELSE IdleQuery
    /\ UNCHANGED <<notTab, user, srvVars, route, cache, selectedSession, page, request,
                   net>>
    /\ toasts' = <<>>

\* the availableSlots request of the enabled query comes back, or fails
SlotsArrive ==
    /\ slotsQuery.status = "loading"
    /\ \E st \in {"ok", "error"} : slotsQuery' = [slotsQuery EXCEPT !.status = st]
    /\ UNCHANGED <<notTab, user, srvVars, route, cache, selectedSession, detail, page,
                   request, net>>
    /\ toasts' = <<>>

isLoadingSlots == slotsQuery.status = "loading"

\* availableSlotsData?.data?.availableSlots || []
availableSlots ==
    IF slotsQuery.status = "ok" THEN ServerSlots(slotsQuery.key) ELSE {}

\* error of the availableSlots query of the request dialog
slotsError == slotsQuery.status = "error"

\* a slot section that offers the select for an empty list
rescheduleSection_SelectWhenEmpty ==
    IF ~(detail.isRescheduleDialogOpen /\ detail.rescheduleDate # NoDate) THEN {}
    ELSE IF isLoadingSlots THEN {"loading"}
    ELSE {"select"}

\* what the reschedule dialog renders under its date input: the query's
\* error is not read
rescheduleSection ==
    IF ~(detail.isRescheduleDialogOpen /\ detail.rescheduleDate # NoDate) THEN {}
    ELSE IF isLoadingSlots THEN {"loading"}
    ELSE IF availableSlots = {} THEN {"empty"}
    ELSE {"select"}

\* what the request dialog renders as its slot section
slotsSection ==
    IF ~(request.open /\ request.selectedSubject # None /\ request.selectedDate # NoDate)
    THEN {}
    ELSE (IF isLoadingSlots THEN {"loading"} ELSE {})
         \cup (IF slotsError THEN {"failed"} ELSE {})
         \cup (IF ~isLoadingSlots /\ ~slotsError /\ availableSlots = {}
               THEN {"empty"} ELSE {})
         \cup (IF ~isLoadingSlots /\ ~slotsError /\ availableSlots # {}
               THEN {"select"} ELSE {})

\* onChange of the title input of the accept dialog
setTitle ==
    /\ detail.isAcceptDialogOpen
    /\ ~isPending("accept", "detail")
    /\ \E t \in TitleKeyed :
           detail' = [detail EXCEPT !.title = maxLength(t, TitleMaxLength)]
    /\ UNCHANGED <<notTab, user, srvVars, route, cache, selectedSession, slotsQuery, page,
                   request, net>>
    /\ toasts' = <<>>

\* onChange of the description input of the accept dialog
setDescription ==
    /\ detail.isAcceptDialogOpen
    /\ ~isPending("accept", "detail")
    /\ \E d \in DescriptionKeyed :
           detail' = [detail EXCEPT !.description = maxLength(d, DescriptionMaxLength)]
    /\ UNCHANGED <<notTab, user, srvVars, route, cache, selectedSession, slotsQuery, page,
                   request, net>>
    /\ toasts' = <<>>

setRejectionReason ==
    /\ detail.isRejectDialogOpen
    /\ ~isPending("reject", "detail")
    /\ \E r \in ReasonKeyed :
           detail' = [detail EXCEPT !.rejectionReason = maxLength(r, ReasonMaxLength)]
    /\ UNCHANGED <<notTab, user, srvVars, route, cache, selectedSession, slotsQuery, page,
                   request, net>>
    /\ toasts' = <<>>

setCancellationReason ==
    /\ detail.isCancelDialogOpen
    /\ ~isPending("cancel", "detail")
    /\ \E r \in ReasonKeyed :
           detail' = [detail EXCEPT !.cancellationReason = maxLength(r, ReasonMaxLength)]
    /\ UNCHANGED <<notTab, user, srvVars, route, cache, selectedSession, slotsQuery, page,
                   request, net>>
    /\ toasts' = <<>>

\* onChange of the date input of the reschedule dialog
setRescheduleDate ==
    /\ detail.isRescheduleDialogOpen
    /\ ~isPending("reschedule", "detail")
    /\ \E d \in (Days \cup {NoDate}) \ {detail.rescheduleDate} :
           /\ detail' = [detail EXCEPT !.rescheduleDate = d,
                                       !.selectedRescheduleSlot = NoSlot]
           /\ slotsQuery' = IF focusOneId(user) # None /\ d # NoDate
                            THEN [key |-> d, status |-> "loading"]
                            ELSE IdleQuery
    /\ UNCHANGED <<notTab, user, srvVars, route, cache, selectedSession, page, request,
                   net>>
    /\ toasts' = <<>>

\* onChange of the slot select of the reschedule dialog
setSelectedRescheduleSlot ==
    /\ detail.isRescheduleDialogOpen
    /\ detail.rescheduleDate # NoDate
    /\ ~isLoadingSlots
    /\ availableSlots # {}
    /\ ~isPending("reschedule", "detail")
    /\ \E slot \in (availableSlots \cup {NoSlot}) \ {detail.selectedRescheduleSlot} :
           detail' = [detail EXCEPT !.selectedRescheduleSlot = slot]
    /\ UNCHANGED <<notTab, user, srvVars, route, cache, selectedSession, slotsQuery, page,
                   request, net>>
    /\ toasts' = <<>>

SubDialogs == {"isAcceptDialogOpen", "isRejectDialogOpen", "isCancelDialogOpen",
               "isRescheduleDialogOpen"}

\* setIsAcceptDialogOpen(false) and its three siblings: the Cancel button of a
\* sub-dialog (disabled while its mutation is pending) or its onOpenChange.
\* Every openXDialog writes the fields of its dialog before they are read
\* again, so the model forgets them here.
setIsDialogOpen ==
    \E f \in SubDialogs :
        /\ selectedSession # NoSession
        /\ detail[f]
        /\ detail' = [DetailUnmounted EXCEPT
                         !.isAcceptDialogOpen = detail.isAcceptDialogOpen /\ f # "isAcceptDialogOpen",
                         !.isRejectDialogOpen = detail.isRejectDialogOpen /\ f # "isRejectDialogOpen",
                         !.isCancelDialogOpen = detail.isCancelDialogOpen /\ f # "isCancelDialogOpen",
                         !.isRescheduleDialogOpen = detail.isRescheduleDialogOpen /\ f # "isRescheduleDialogOpen"]
        /\ slotsQuery' = IF f = "isRescheduleDialogOpen" THEN IdleQuery ELSE slotsQuery
        /\ UNCHANGED <<notTab, user, srvVars, route, cache, selectedSession, page, request,
                       net>>
        /\ toasts' = <<>>

(***************************************************************************)
(* Mutations.                                                              *)
(***************************************************************************)
Req(kind, origin, t, d, r, slot) ==
    [kind |-> kind, origin |-> origin, live |-> "dialog",
     title |-> t, description |-> d, reason |-> r, slot |-> slot]

\* mutation.mutate(variables): the request leaves for the service
mutate(req) == net' = net (+) SetToBag({req})

acceptDisabled_AnyLength(pending, t, d) ==
    \/ pending
    \/ trim(t).len = 0
    \/ trim(d).len = 0

\* the disabled expression of the Accept Request button
acceptDisabled(pending, t, d) ==
    \/ pending
    \/ trim(t).len = 0
    \/ trim(d).len = 0
    \/ trim(d).len < DescriptionMinLength

reasonDisabled_AnyLength(pending, r) ==
    \/ pending
    \/ trim(r).len = 0

\* the disabled expression of the Reject Request and Cancel Session buttons
reasonDisabled(pending, r) ==
    \/ pending
    \/ trim(r).len = 0
    \/ trim(r).len < ReasonMinLength

noSlot_Never(slot) == FALSE

\* !selectedRescheduleSlot
noSlot(slot) == slot = NoSlot

handleAccept ==
    /\ detail.isAcceptDialogOpen
    /\ ~acceptDisabled(isPending("accept", "detail"), detail.title, detail.description)
    /\ mutate(Req("accept", "detail", trim(detail.title),
                  trim(detail.description), EmptyText, NoSlot))
    /\ UNCHANGED <<notTab, user, srvVars, route, cache, selectedSession, detail, slotsQuery,
                   page, request>>
    /\ toasts' = <<>>

handleReject ==
    /\ detail.isRejectDialogOpen
    /\ ~reasonDisabled(isPending("reject", "detail"), detail.rejectionReason)
    /\ trim(detail.rejectionReason).len # 0
    /\ mutate(Req("reject", "detail", EmptyText, EmptyText,
                  trim(detail.rejectionReason), NoSlot))
    /\ UNCHANGED <<notTab, user, srvVars, route, cache, selectedSession, detail, slotsQuery,
                   page, request>>
    /\ toasts' = <<>>

handleCancel ==
    /\ detail.isCancelDialogOpen
    /\ ~reasonDisabled(isPending("cancel", "detail"), detail.cancellationReason)
    /\ trim(detail.cancellationReason).len # 0
    /\ mutate(Req("cancel", "detail", EmptyText, EmptyText,
                  trim(detail.cancellationReason), NoSlot))
    /\ UNCHANGED <<notTab, user, srvVars, route, cache, selectedSession, detail, slotsQuery,
                   page, request>>
    /\ toasts' = <<>>

\* the disabled expression of the Reschedule Session button
rescheduleDisabled ==
    \/ isPending("reschedule", "detail")
    \/ noSlot(detail.selectedRescheduleSlot)
    \/ detail.rescheduleDate = NoDate

handleReschedule ==
    /\ detail.isRescheduleDialogOpen
    /\ ~rescheduleDisabled
    /\ ~noSlot(detail.selectedRescheduleSlot)
    /\ mutate(Req("reschedule", "detail", EmptyText,
                  EmptyText, EmptyText, detail.selectedRescheduleSlot))
    /\ UNCHANGED <<notTab, user, srvVars, route, cache, selectedSession, detail, slotsQuery,
                   page, request>>
    /\ toasts' = <<>>

(***************************************************************************)
(* TeacherSessionRequestsPage.                                             *)
(***************************************************************************)
PageInteractive ==
    /\ route = "session-requests"
    /\ ~page.isAcceptDialogOpen
    /\ ~page.isRejectDialogOpen

\* the Accept button of a listed session whose status is requested
page_openAcceptDialog ==
    /\ PageInteractive
    /\ cache["teacherSessionRequests"].data = "requested"
    /\ ~(isPending("accept", "page") \/ isPending("reject", "page"))
    /\ page' = [page EXCEPT
                   !.selectedSession = [status |-> cache["teacherSessionRequests"].data],
                   !.title = autoTitle, !.description = EmptyText,
                   !.isAcceptDialogOpen = TRUE]
    /\ UNCHANGED <<notTab, user, srvVars, route, cache, selectedSession, detail, slotsQuery,
                   request, net>>
    /\ toasts' = <<>>

\* the Reject button of a listed session whose status is requested
page_openRejectDialog ==
    /\ PageInteractive
    /\ cache["teacherSessionRequests"].data = "requested"
    /\ ~(isPending("accept", "page") \/ isPending("reject", "page"))
    /\ page' = [page EXCEPT
                   !.selectedSession = [status |-> cache["teacherSessionRequests"].data],
                   !.rejectionReason = EmptyText,
                   !.isRejectDialogOpen = TRUE]
    /\ UNCHANGED <<notTab, user, srvVars, route, cache, selectedSession, detail, slotsQuery,
                   request, net>>
    /\ toasts' = <<>>

page_setTitle ==
    /\ page.isAcceptDialogOpen
    /\ ~isPending("accept", "page")
    /\ \E t \in TitleKeyed :
           page' = [page EXCEPT !.title = maxLength(t, TitleMaxLength)]
    /\ UNCHANGED <<notTab, user, srvVars, route, cache, selectedSession, detail, slotsQuery,
                   request, net>>
    /\ toasts' = <<>>

page_setDescription ==
    /\ page.isAcceptDialogOpen
    /\ ~isPending("accept", "page")
    /\ \E d \in DescriptionKeyed :
           page' = [page EXCEPT !.description = maxLength(d, DescriptionMaxLength)]
    /\ UNCHANGED <<notTab, user, srvVars, route, cache, selectedSession, detail, slotsQuery,
                   request, net>>
    /\ toasts' = <<>>

page_setRejectionReason ==
    /\ page.isRejectDialogOpen
    /\ ~isPending("reject", "page")
    /\ \E r \in ReasonKeyed :
           page' = [page EXCEPT !.rejectionReason = maxLength(r, ReasonMaxLength)]
    /\ UNCHANGED <<notTab, user, srvVars, route, cache, selectedSession, detail, slotsQuery,
                   request, net>>
    /\ toasts' = <<>>

\* setIsAcceptDialogOpen(false), setIsRejectDialogOpen(false): the Cancel button
\* or the onOpenChange of the dialog; selectedSession stays.  The fields are
\* written again by the next open before they are read, the model forgets them.
page_setIsDialogOpen ==
    /\ route = "session-requests"
    /\ page.isAcceptDialogOpen \/ page.isRejectDialogOpen
    /\ page' = [PageUnmounted EXCEPT !.selectedSession = page.selectedSession]
    /\ UNCHANGED <<notTab, user, srvVars, route, cache, selectedSession, detail, slotsQuery,
                   request, net>>
    /\ toasts' = <<>>

page_handleAccept ==
    /\ page.isAcceptDialogOpen
    /\ ~acceptDisabled(isPending("accept", "page"), page.title, page.description)
    /\ page.selectedSession # NoSession
    /\ mutate(Req("accept", "page", trim(page.title), trim(page.description),
                  EmptyText, NoSlot))
    /\ UNCHANGED <<notTab, user, srvVars, route, cache, selectedSession, detail, slotsQuery,
                   page, request>>
    /\ toasts' = <<>>

page_handleReject ==
    /\ page.isRejectDialogOpen
    /\ ~reasonDisabled(isPending("reject", "page"), page.rejectionReason)
    /\ page.selectedSession # NoSession /\ trim(page.rejectionReason).len # 0
    /\ mutate(Req("reject", "page", EmptyText, EmptyText,
                  trim(page.rejectionReason), NoSlot))
    /\ UNCHANGED <<notTab, user, srvVars, route, cache, selectedSession, detail, slotsQuery,
                   page, request>>
    /\ toasts' = <<>>

(***************************************************************************)
(* FocusOnePage and RequestSessionDialog.                                  *)
(***************************************************************************)
\* the days a user may put into the date input of the request dialog
RequestDays == {today, today + 1, today + 2, today + 3}

\* minDate.toISOString().split('T')[0]: the UTC day of a local midnight, the
\* day before it where the local clock is ahead of UTC
toISODate(d, ahead) == IF ahead THEN d - 1 ELSE d

skipSunday(d) == IF d % 7 = 0 THEN d + 1 ELSE d

getMinDate(start, ahead) ==
    LET minDate == skipSunday(start + 1)
        tomorrow == skipSunday(today + 1)
    IN  toISODate(IF minDate < tomorrow THEN tomorrow ELSE minDate, ahead)

\* the errors of the form: a set of <<field, message>> with one message per field
without(errs, field) == {e \in errs : e[1] # field}

with(errs, field, message) == without(errs, field) \cup {<<field, message>>}

\* the date checks of handleDateChange and handleSubmit, in their order:
\* the message of the first check that fails, None when all pass
dateMessage(d, minDate) ==
    IF d = today THEN "Sessions must be scheduled at least one day in advance"
    ELSE IF d < today THEN "Cannot schedule sessions in the past"
    ELSE IF d < minDate THEN "Sessions can only be scheduled from minDate onwards"
    ELSE IF d % 7 = 0 THEN "Sessions cannot be scheduled on Sundays"
    ELSE None

dateError(d, minDate) == dateMessage(d, minDate) # None

\* handleOpenDialog of FocusOnePage, then the effect that sets selectedDate
handleOpenDialog ==
    /\ route = "focus-one"
    /\ focusOneId(user) # None
    /\ ~request.open
    /\ \E ahead \in BOOLEAN, start \in ProgramStarts :
           request' = [request EXCEPT
                          !.open = TRUE,
                          !.programStartDate = start,
                          !.minDate = getMinDate(start, ahead),
                          !.selectedDate = getMinDate(start, ahead)]
    /\ UNCHANGED <<notTab, user, srvVars, route, cache, selectedSession, detail, slotsQuery,
                   page, net>>
    /\ toasts' = <<>>

\* an effect that leaves the slot selected
resetSelectedSlot_Keeps(slot) == slot

\* the effect on [selectedSubject, selectedDate]: setSelectedSlot(null)
resetSelectedSlot(slot) == NoSlot

handleSubjectChange ==
    /\ request.open
    /\ ~isPending("request", "request")
    /\ \E v \in (Subjects \cup {None}) \ {request.selectedSubject} :
           /\ request' = [request EXCEPT !.selectedSubject = v,
                                         !.selectedSlot = resetSelectedSlot(@),
                                         !.errors = without(@, "subject")]
           /\ slotsQuery' = IF v # None /\ request.selectedDate # NoDate
                            THEN [key |-> request.selectedDate, status |-> "loading"]
                            ELSE IdleQuery
    /\ UNCHANGED <<notTab, user, srvVars, route, cache, selectedSession, detail, page, net>>
    /\ toasts' = <<>>

handleDateChange ==
    /\ request.open
    /\ ~isPending("request", "request")
    /\ \E v \in (RequestDays \cup {NoDate}) \ {request.selectedDate} :
           /\ request' = [request EXCEPT
                             !.selectedDate = v,
                             !.selectedSlot = resetSelectedSlot(@),
                             !.errors = IF v = NoDate THEN @
                                        ELSE IF dateError(v, request.minDate)
                                        THEN with(@, "date", dateMessage(v, request.minDate))
                                        ELSE without(@, "date")]
           /\ slotsQuery' = IF request.selectedSubject # None /\ v # NoDate
                            THEN [key |-> v, status |-> "loading"]
                            ELSE IdleQuery
    /\ UNCHANGED <<notTab, user, srvVars, route, cache, selectedSession, detail, page, net>>
    /\ toasts' = <<>>

handleSlotChange ==
    /\ request.open
    /\ ~isPending("request", "request")
    /\ \E slot \in availableSlots \ {request.selectedSlot} :
           request' = [request EXCEPT !.selectedSlot = slot, !.errors = without(@, "slot")]
    /\ UNCHANGED <<notTab, user, srvVars, route, cache, selectedSession, detail, slotsQuery,
                   page, net>>
    /\ toasts' = <<>>

\* the disabled expression of the Request Session button
requestDisabled ==
    \/ isPending("request", "request")
    \/ request.selectedSubject = None
    \/ request.selectedSlot = NoSlot
    \/ isLoadingSlots
    \/ availableSlots = {}

\* handleSubmit: the form is checked again, then the request leaves
handleSubmit ==
    /\ request.open
    /\ ~requestDisabled
    /\ LET newErrors ==
               (IF request.selectedSubject = None
                THEN {<<"subject", "Please select a subject">>} ELSE {})
               \cup (IF request.selectedDate = NoDate
                     THEN {<<"date", "Please select a date">>}
                     ELSE IF dateError(request.selectedDate, request.minDate)
                     THEN {<<"date", dateMessage(request.selectedDate, request.minDate)>>}
                     ELSE {})
               \cup (IF request.selectedSlot = NoSlot
                     THEN {<<"slot", "Please select an available time slot">>} ELSE {})
       IN  IF newErrors # {}
           THEN /\ request' = [request EXCEPT !.errors = newErrors]
                /\ UNCHANGED net
           ELSE /\ request' = [request EXCEPT !.errors = {}]
                /\ mutate(Req("request", "request", autoTitle, EmptyText, EmptyText,
                              request.selectedSlot))
    /\ UNCHANGED <<notTab, user, srvVars, route, cache, selectedSession, detail, slotsQuery,
                   page>>
    /\ toasts' = <<>>

\* onOpenChange(false) of the request dialog (handleCancel, Escape), then the
\* effect that resets the form
handleCancel_request ==
    /\ request.open
    /\ request' = RequestClosed
    /\ slotsQuery' = IdleQuery
    /\ UNCHANGED <<notTab, user, srvVars, route, cache, selectedSession, detail, page, net>>
    /\ toasts' = <<>>

\* handleDialogSuccess of FocusOnePage: its body is a comment
handleDialogSuccess(c) == c

\* toast.success and toast.error: a toast of a mutation carries the message
\* of the answer ("ok", "conflict") or the fallback of a call without answer
notifySuccess(ts, kind) ==
    Append(ts, [type |-> "success", kind |-> kind, message |-> "ok"])

notifyError_Silent(ts, kind, message) == ts

notifyError(ts, kind, message) ==
    Append(ts, [type |-> "error", kind |-> kind, message |-> message])

\* handleApiError raises the toast itself before it returns the message
handleApiError(ts, kind, message) == notifyError(ts, kind, message)

\* the fieldErrors handleApiError returns: the details of the answer that
\* name a field; only the answer to an invalid request carries such a detail
fieldErrors(message) ==
    IF message = "validation" THEN {<<"subject", "Subject is not part of the program">>}
    ELSE {}

\* the query keys the onSuccess of a mutation invalidates
Invalidated(kind, origin) ==
    CASE origin = "detail" /\ kind \in {"accept", "reject"} ->
             {"calendarSessions", "teacherSessionRequests"}
      [] origin = "detail" ->
             {"calendarSessions", "teacherSessionRequests", "studentSessions"}
      [] origin = "page" -> {"teacherSessionRequests"}
      [] OTHER -> {}

\* onSuccess of the four mutations of SessionDetailDialog; the setters of an
\* unmounted dialog do nothing, its onOpenChange still reaches CalendarPage
DetailOnSuccess(r) ==
    /\ toasts' = notifySuccess(<<>>, r.kind)
    /\ cache' = invalidateQueries(cache, Invalidated(r.kind, "detail"), srvStatus')
    /\ IF r.live = "gone"
       THEN /\ net' = net (-) SetToBag({r})
            /\ UNCHANGED <<selectedSession, detail, slotsQuery>>
       ELSE /\ selectedSession' = NoSession
            /\ detail' = DetailUnmounted
            /\ slotsQuery' = IdleQuery
            /\ net' = DetailOrphaned(net (-) SetToBag({r}))
    /\ UNCHANGED <<page, request>>

\* an onError that closes the dialog as onSuccess does
DetailOnError_Closes(r, message) ==
    /\ toasts' = notifyError(handleApiError(<<>>, r.kind, message), r.kind, message)
    /\ net' = net (-) SetToBag({r})
    /\ detail' = IF r.live = "dialog" THEN [detail EXCEPT !.isCancelDialogOpen = FALSE]
                  ELSE detail
    /\ UNCHANGED <<cache, selectedSession, slotsQuery, page, request>>

\* onError of the four mutations of SessionDetailDialog
DetailOnError(r, message) ==
    /\ toasts' = notifyError(handleApiError(<<>>, r.kind, message), r.kind, message)
    /\ net' = net (-) SetToBag({r})
    /\ UNCHANGED <<cache, selectedSession, detail, slotsQuery, page, request>>

\* onSuccess of the two mutations of TeacherSessionRequestsPage
PageOnSuccess(r) ==
    /\ toasts' = notifySuccess(<<>>, r.kind)
    /\ cache' = invalidateQueries(cache, Invalidated(r.kind, "page"), srvStatus')
    /\ page' = IF r.live = "gone" THEN page
               ELSE IF r.kind = "accept"
               THEN [page EXCEPT !.isAcceptDialogOpen = FALSE,
                                 !.selectedSession = NoSession,
                                 !.title = EmptyText, !.description = EmptyText]
               ELSE [page EXCEPT !.isRejectDialogOpen = FALSE,
                                 !.selectedSession = NoSession,
                                 !.rejectionReason = EmptyText]
    /\ net' = net (-) SetToBag({r})
    /\ UNCHANGED <<selectedSession, detail, slotsQuery, request>>

\* onError of the two mutations of TeacherSessionRequestsPage
PageOnError(r, message) ==
    /\ toasts' = notifyError(handleApiError(<<>>, r.kind, message), r.kind, message)
    /\ net' = net (-) SetToBag({r})
    /\ UNCHANGED <<cache, selectedSession, detail, slotsQuery, page, request>>

\* onSuccess of requestMutation: onSuccess?.() and onOpenChange(false) are
\* the callbacks FocusOnePage handed down
RequestOnSuccess(r) ==
    /\ toasts' = notifySuccess(<<>>, r.kind)
    /\ cache' = handleDialogSuccess(cache)
    /\ IF r.live = "gone"
       THEN UNCHANGED <<request, slotsQuery>>
       ELSE request' = RequestClosed /\ slotsQuery' = IdleQuery
    /\ net' = net (-) SetToBag({r})
    /\ UNCHANGED <<selectedSession, detail, page>>

\* onError of requestMutation: fieldErrors is an object, so setErrors always
\* runs and the second notifyError is never reached
RequestOnError(r, message) ==
    /\ toasts' = handleApiError(<<>>, r.kind, message)
    /\ request' = IF r.live = "gone" THEN request
                  ELSE [request EXCEPT !.errors = fieldErrors(message)]
    /\ net' = net (-) SetToBag({r})
    /\ UNCHANGED <<cache, selectedSession, detail, slotsQuery, page>>

onSuccess(r) ==
    CASE r.origin = "detail" -> DetailOnSuccess(r)
      [] r.origin = "page" -> PageOnSuccess(r)
      [] r.origin = "request" -> RequestOnSuccess(r)

onError(r, message) ==
    CASE r.origin = "detail" -> DetailOnError(r, message)
      [] r.origin = "page" -> PageOnError(r, message)
      [] r.origin = "request" -> RequestOnError(r, message)

(***************************************************************************)
(* The service answers.                                                    *)
(***************************************************************************)
\* whether the service takes the call: a request for a new session is
\* refused when its slot has been booked meanwhile
Served(r) ==
    IF r.kind = "request" THEN BOOLEAN ELSE {ServerAllows(r.kind, srvStatus)}

\* the answers with which the service refuses a call
Refusals(r) ==
    IF r.kind = "request" THEN {"conflict", "validation"} ELSE {"conflict"}

Apply(r) ==
    /\ srvStatus' = ServerNext(r.kind, srvStatus)
    /\ srvDecisions' = srvDecisions + Decides(r.kind)

\* the service handles a request of the tab and the tab gets the answer
ServerHandle ==
    \E r \in InFlight :
        /\ \E served \in Served(r) :
               IF served
               THEN Apply(r) /\ onSuccess(r)
               ELSE /\ UNCHANGED srvVars
                    /\ \E message \in Refusals(r) : onError(r, message)
        /\ UNCHANGED <<notTab, user, route>>

\* a request is lost on its way or times out
RequestLost ==
    \E r \in InFlight :
        /\ onError(r, "network")
        /\ UNCHANGED <<notTab, user, srvVars, route>>

\* the service handles a request and the answer is lost or comes too late
ResponseLost ==
    \E r \in InFlight :
        /\ TRUE \in Served(r)
        /\ Apply(r)
        /\ onError(r, "network")
        /\ UNCHANGED <<notTab, user, route>>

Next ==
    \/ OtherActorCall
    \/ ServerHandle
    \/ RequestLost
    \/ ResponseLost
    \/ Refetch
    \/ Navigate
    \/ onSessionClick
    \/ onOpenChange
    \/ openAcceptDialog
    \/ openRejectDialog
    \/ openCancelDialog
    \/ openRescheduleDialog
    \/ SlotsArrive
    \/ setTitle
    \/ setDescription
    \/ setRejectionReason
    \/ setCancellationReason
    \/ setRescheduleDate
    \/ setSelectedRescheduleSlot
    \/ setIsDialogOpen
    \/ handleAccept
    \/ handleReject
    \/ handleCancel
    \/ handleReschedule
    \/ page_openAcceptDialog
    \/ page_openRejectDialog
    \/ page_setTitle
    \/ page_setDescription
    \/ page_setRejectionReason
    \/ page_setIsDialogOpen
    \/ page_handleAccept
    \/ page_handleReject
    \/ handleOpenDialog
    \/ handleSubjectChange
    \/ handleDateChange
    \/ handleSlotChange
    \/ handleSubmit
    \/ handleCancel_request

Spec == Init /\ [][Next]_vars

\* the service answers every call and an enabled query without data fetches;
\* nothing makes the user act
SpecLive == Spec /\ WF_vars(ServerHandle) /\ WF_vars(Refetch) /\ WF_vars(SlotsArrive)

(***************************************************************************)
(* lib/http/axios.ts: the response interceptor of axiosInstance.           *)
(***************************************************************************)
\* error.config?.skipAuthRefresh: no caller of axiosInstance sets it
skipAuthRefresh == FALSE

\* a notice that shows regardless of the last one
noticeDue_Always(t, last) == TRUE

\* now - lastSessionRevocationNoticeAt > SESSION_NOTICE_COOLDOWN_MS
noticeDue(t, last) == t - last > SESSION_NOTICE_COOLDOWN_MS

\* Math.max(0, activeOverlayRequests - 1)
decrement(n) == IF n - 1 > 0 THEN n - 1 ELSE 0

\* notifyLoadingOverlay: every listener is told activeOverlayRequests > 0,
\* n being the counter; the value of isVisible after it
notifyLoadingOverlay(n) == IF loadingListeners THEN n > 0 ELSE isVisible

\* a page of the tab sends a request through axiosInstance: the request
\* interceptor counts it when config.showLoadingOverlay is set
send ==
    /\ outstanding < MaxPending
    /\ timers = 0
    /\ outstanding' = outstanding + 1
    /\ response' = NoResponse
    /\ \E showLoadingOverlay \in BOOLEAN :
          IF showLoadingOverlay
          THEN /\ activeOverlayRequests' = activeOverlayRequests + 1
               /\ isVisible' = notifyLoadingOverlay(activeOverlayRequests')
               /\ overlayPending' = overlayPending + 1
               /\ UNCHANGED loadingListeners
          ELSE UNCHANGED overlayVars
    /\ UNCHANGED <<now, lastSessionRevocationNoticeAt, token, pathname, timers,
                   stored, notices>>
    /\ UNCHANGED notHttp

\* the request that settles is one with showLoadingOverlay, or one without
settles(showLoadingOverlay) ==
    IF showLoadingOverlay THEN overlayPending > 0 ELSE outstanding > overlayPending

\* (response) => response, then the success handler of the second response
\* interceptor
onFulfilled ==
    /\ outstanding > 0
    /\ outstanding' = outstanding - 1
    /\ response' = [status |-> 200, code |-> None]
    /\ \E showLoadingOverlay \in BOOLEAN :
          /\ settles(showLoadingOverlay)
          /\ IF showLoadingOverlay
             THEN /\ activeOverlayRequests' = decrement(activeOverlayRequests)
                  /\ isVisible' = notifyLoadingOverlay(activeOverlayRequests')
                  /\ overlayPending' = overlayPending - 1
                  /\ UNCHANGED loadingListeners
             ELSE UNCHANGED overlayVars
    /\ UNCHANGED <<now, lastSessionRevocationNoticeAt, token, pathname, timers,
                   stored, notices>>
    /\ UNCHANGED notHttp

\* async (error) => ...: the error handler of the first response interceptor
onRejected ==
    \E status \in Statuses \ {200}, errorCode \in Codes, showLoadingOverlay \in BOOLEAN :
        /\ outstanding > 0
        /\ outstanding' = outstanding - 1
        /\ settles(showLoadingOverlay)
        /\ IF showLoadingOverlay
           THEN /\ activeOverlayRequests' = decrement(activeOverlayRequests)
                /\ isVisible' = notifyLoadingOverlay(activeOverlayRequests')
                /\ overlayPending' = overlayPending - 1
                /\ UNCHANGED loadingListeners
           ELSE UNCHANGED overlayVars
        /\ response' = [status |-> status, code |-> errorCode]
        /\ IF status = 401 /\ ~skipAuthRefresh
           THEN /\ token' = FALSE
                /\ IF errorCode = SESSION_REVOKED_CODE
                   THEN /\ stored' = TRUE
                        /\ IF noticeDue(now, lastSessionRevocationNoticeAt)
                           THEN /\ notices' = Append(notices, now)
                                /\ lastSessionRevocationNoticeAt' = now
                           ELSE UNCHANGED <<notices, lastSessionRevocationNoticeAt>>
                        /\ timers' = IF pathname # "/login" THEN timers + 1 ELSE timers
                   ELSE UNCHANGED <<stored, notices, lastSessionRevocationNoticeAt, timers>>
           ELSE UNCHANGED <<token, stored, notices, lastSessionRevocationNoticeAt, timers>>
        /\ UNCHANGED <<now, pathname>>
        /\ UNCHANGED notHttp

\* the setTimeout callback: window.location.assign('/login') loads the page
\* anew; the module starts over, the requests and timers of the old page are
\* gone with its toasts, and LoginPage takes the stored message
assignLogin ==
    /\ timers > 0
    /\ pathname' = "/login"
    /\ timers' = 0
    /\ outstanding' = 0
    /\ activeOverlayRequests' = 0
    /\ loadingListeners' = FALSE
    /\ isVisible' = FALSE
    /\ overlayPending' = 0
    /\ lastSessionRevocationNoticeAt' = 0
    /\ notices' = <<>>
    /\ stored' = FALSE
    /\ response' = NoResponse
    /\ UNCHANGED <<now, token>>
    /\ UNCHANGED notHttp

\* completeLogin of LoginPage: the store takes the session, navigate('/app')
completeLogin ==
    /\ pathname = "/login"
    /\ timers = 0
    /\ token' = TRUE
    /\ pathname' = "/app"
    /\ response' = NoResponse
    /\ UNCHANGED <<now, lastSessionRevocationNoticeAt, timers, outstanding, stored, notices>>
    /\ UNCHANGED overlayVars
    /\ UNCHANGED notHttp

\* the links between the login and the signup page
navigate ==
    /\ pathname \in {"/login", "/signup"}
    /\ timers = 0
    /\ pathname' = IF pathname = "/login" THEN "/signup" ELSE "/login"
    /\ stored' = IF pathname' = "/login" THEN FALSE ELSE stored
    /\ response' = NoResponse
    /\ UNCHANGED <<now, lastSessionRevocationNoticeAt, token, timers, outstanding, notices>>
    /\ UNCHANGED overlayVars
    /\ UNCHANGED notHttp

\* time passes; a timeout of 0 ms runs before
Tick ==
    \E d \in Ticks :
        /\ timers = 0
        /\ now + d <= pageLoad + MaxElapsed
        /\ now' = now + d
        /\ response' = NoResponse
        /\ UNCHANGED <<lastSessionRevocationNoticeAt, token, pathname, timers,
                       outstanding, stored, notices>>
        /\ UNCHANGED overlayVars
        /\ UNCHANGED notHttp

\* a LoadingOverlayProvider mounts: useState(false), and its effect subscribes
subscribeLoadingOverlay ==
    /\ ~loadingListeners
    /\ timers = 0
    /\ loadingListeners' = TRUE
    /\ isVisible' = FALSE
    /\ response' = NoResponse
    /\ UNCHANGED <<activeOverlayRequests, overlayPending>>
    /\ UNCHANGED <<now, lastSessionRevocationNoticeAt, token, pathname, timers,
                   outstanding, stored, notices>>
    /\ UNCHANGED notHttp

\* the provider unmounts: the cleanup of its effect
unsubscribe ==
    /\ loadingListeners
    /\ timers = 0
    /\ loadingListeners' = FALSE
    /\ isVisible' = FALSE
    /\ response' = NoResponse
    /\ UNCHANGED <<activeOverlayRequests, overlayPending>>
    /\ UNCHANGED <<now, lastSessionRevocationNoticeAt, token, pathname, timers,
                   outstanding, stored, notices>>
    /\ UNCHANGED notHttp

NextHttp ==
    \/ send
    \/ onFulfilled
    \/ onRejected
    \/ assignLogin
    \/ completeLogin
    \/ navigate
    \/ Tick

SpecHttp == Init /\ [][NextHttp]_vars

\* the interceptors with a LoadingOverlayProvider that mounts and unmounts
NextOverlay ==
    \/ subscribeLoadingOverlay
    \/ unsubscribe
    \/ send
    \/ onFulfilled
    \/ onRejected
    \/ assignLogin

SpecOverlay == Init /\ [][NextOverlay]_vars

(***************************************************************************)
(* useEnrollment.                                                          *)
(***************************************************************************)
\* the dependencies of the fetching effect: [user?.enrollmentType, user?.id]
deps(u) == <<enrollmentType(u), u>>

\* the calls of fetchEnrollment that have not settled
inFlight(fs) == {i \in 1..Len(fs) : ~fs[i].settled}

\* the cleanup of the fetching effect, when the last run returned one:
\* cancelled = true of that run
cancel(fs, c) == IF c = 0 THEN fs ELSE [fs EXCEPT ![c].cancelled = TRUE]

\* a result is applied whatever the cancelled flag says
applies_Uncancelled(f) == isMountedRef

\* !cancelled && isMountedRef.current
applies(f) == ~f.cancelled /\ isMountedRef

\* the body of the fetching effect for user u, the fetches being fs and
\* isFetchingRef being ref when it starts
effect(u, fs, ref) ==
    IF enrollmentType(u) = None \/ u = None
    THEN /\ enrollment' = None
         /\ isFetchingRef' = FALSE
         /\ fetches' = fs
         /\ cleanup' = 0
         /\ UNCHANGED <<loading, error>>
    ELSE IF ref
    THEN /\ isFetchingRef' = ref
         /\ fetches' = fs
         /\ cleanup' = 0
         /\ UNCHANGED <<enrollment, loading, error>>
    ELSE /\ Len(fs) < MaxFetches
         /\ isFetchingRef' = TRUE
         /\ loading' = TRUE
         /\ error' = None
         /\ fetches' = Append(fs, [user |-> u, cancelled |-> FALSE, settled |-> FALSE])
         /\ cleanup' = Len(fs) + 1
         /\ UNCHANGED enrollment

\* the component mounts: both effects run
mount ==
    /\ mounted = "new"
    /\ mounted' = "mounted"
    /\ isMountedRef' = TRUE
    /\ effect(authUser, fetches, isFetchingRef)
    /\ UNCHANGED authUser
    /\ UNCHANGED notHook

\* the auth store gets another user (login, logout, switch): when a
\* dependency changed the cleanup of the last run runs, then the effect
setUser ==
    /\ mounted = "mounted"
    /\ \E u \in AuthUsers \ {authUser} :
          /\ authUser' = u
          /\ IF deps(u) = deps(authUser)
             THEN UNCHANGED <<enrollment, loading, error, isFetchingRef, fetches, cleanup>>
             ELSE effect(u, cancel(fetches, cleanup),
                         IF cleanup = 0 THEN isFetchingRef ELSE FALSE)
    /\ UNCHANGED <<mounted, isMountedRef>>
    /\ UNCHANGED notHook

\* getMyEnrollment of a call settles: the rest of fetchEnrollment
settle ==
    /\ \E i \in inFlight(fetches), outcome \in Outcomes :
          /\ fetches' = [fetches EXCEPT ![i].settled = TRUE]
          /\ IF applies(fetches[i])
             THEN /\ enrollment' = IF outcome = "data" THEN fetches[i].user ELSE None
                  /\ error' = IF outcome = "error" THEN "error" ELSE error
                  /\ loading' = FALSE
             ELSE UNCHANGED <<enrollment, error, loading>>
          /\ isFetchingRef' = FALSE
    /\ UNCHANGED <<authUser, mounted, isMountedRef, cleanup>>
    /\ UNCHANGED notHook

\* the component unmounts: the cleanups of both effects run
unmount ==
    /\ mounted = "mounted"
    /\ mounted' = "unmounted"
    /\ isMountedRef' = FALSE
    /\ fetches' = cancel(fetches, cleanup)
    /\ isFetchingRef' = IF cleanup = 0 THEN isFetchingRef ELSE FALSE
    /\ cleanup' = 0
    /\ UNCHANGED <<authUser, enrollment, loading, error>>
    /\ UNCHANGED notHook

NextHook ==
    \/ mount
    \/ setUser
    \/ settle
    \/ unmount

SpecHook == Init /\ [][NextHook]_vars

\* every request is answered
SpecHookFair == SpecHook /\ WF_vars(settle)

(***************************************************************************)
(* The debounce effect of the search box.                                  *)
(***************************************************************************)
\* a cleanup that leaves the timeout set
clearTimeout_Keeps(ts, tm) == ts

\* clearTimeout(timer)
clearTimeout(ts, tm) == ts \ {tm}

\* setTimeout(() => ..., 500) in the render that holds text
setTimeout(text) == [due |-> msNow + DebounceDelay, text |-> text]

\* params.search of queryParams: debouncedSearchQuery.trim(), no parameter
\* when that is empty
search(text) == IF text = "ab " THEN "ab" ELSE text

\* onChange of the search box: setSearchQuery; the effect runs again, its
\* cleanup first
onSearchChange ==
    /\ \E text \in Texts \ {searchQuery} :
          /\ searchQuery' = text
          /\ timer' = setTimeout(text)
          /\ timers500' = clearTimeout(timers500, timer) \cup {timer'}
    /\ lastInputAt' = msNow
    /\ UNCHANGED <<msNow, debouncedSearchQuery, listPage, querySearch>>
    /\ UNCHANGED notSearch

\* the callback of a timeout that is due: setDebouncedSearchQuery, setPage(1);
\* the list query follows queryParams
onTimeout ==
    /\ \E tm \in timers500 :
          /\ msNow >= tm.due
          /\ timers500' = timers500 \ {tm}
          /\ debouncedSearchQuery' = tm.text
          /\ querySearch' = search(tm.text)
    /\ listPage' = 1
    /\ UNCHANGED <<msNow, lastInputAt, searchQuery, timer>>
    /\ UNCHANGED notSearch

\* the button in the search box, shown while it holds a text: the text and the
\* debounced text are emptied at once; the effect runs again
clearSearch ==
    /\ searchQuery # ""
    /\ searchQuery' = ""
    /\ debouncedSearchQuery' = ""
    /\ querySearch' = search("")
    /\ listPage' = 1
    /\ timer' = setTimeout("")
    /\ timers500' = clearTimeout(timers500, timer) \cup {timer'}
    /\ lastInputAt' = msNow
    /\ UNCHANGED msNow
    /\ UNCHANGED notSearch

\* handleClearFilters: the same for all filters; the effect runs again when
\* the text was not empty
handleClearFilters ==
    /\ searchQuery' = ""
    /\ debouncedSearchQuery' = ""
    /\ querySearch' = search("")
    /\ listPage' = 1
    /\ IF searchQuery # ""
       THEN /\ timer' = setTimeout("")
            /\ timers500' = clearTimeout(timers500, timer) \cup {timer'}
            /\ lastInputAt' = msNow
       ELSE UNCHANGED <<timer, timers500, lastInputAt>>
    /\ UNCHANGED msNow
    /\ UNCHANGED notSearch

\* the pagination buttons: setPage
goToPage ==
    /\ \E p \in ListPages \ {listPage} : listPage' = p
    /\ UNCHANGED <<msNow, lastInputAt, searchQuery, debouncedSearchQuery, timers500,
                   timer, querySearch>>
    /\ UNCHANGED notSearch

\* the clock advances
elapse ==
    /\ \E d \in Steps :
          /\ msNow + d <= MaxTime
          /\ msNow' = msNow + d
    /\ UNCHANGED <<lastInputAt, searchQuery, debouncedSearchQuery, listPage,
                   timers500, timer, querySearch>>
    /\ UNCHANGED notSearch

NextSearch ==
    \/ onSearchChange
    \/ onTimeout
    \/ clearSearch
    \/ handleClearFilters
    \/ goToPage
    \/ elapse

SpecSearch == Init /\ [][NextSearch]_vars

(***************************************************************************)
(* startTime and endTime of the requests of RequestSessionDialog,          *)
(* SessionDetailDialog (reschedule) and TeacherScheduleSessionDialog.      *)
(***************************************************************************)
\* slotToTimeFormat: startDateTime and endDateTime are the Dates of the ISO
\* strings of the slot
slotToTimeFormat(slot) ==
    [startDateTime |-> parse(slot.startTime), endDateTime |-> parse(slot.endTime)]

\* new Date(`${selectedDate}T${selectedTime}:00`): a local date and time
localDate(date, time, offset) == (date * 1440 + time + offset) * Minute

\* the immediate meeting: setSeconds(0, 0), then the next minute
nextMinute(t) == (t - (t % Minute)) + Minute

\* an end that is the start
endDateTime_AtStart(startDateTime) == startDateTime

\* new Date(startDateTime.getTime() + 75 * 60 * 1000)
endDateTime(startDateTime) == startDateTime + ScheduleDuration * Minute

\* a dialog is filled in
fill ==
    /\ form = NoForm
    /\ form' \in SlotForms \cup ScheduleForms
    /\ payload' = NoPayload
    /\ UNCHANGED notTime

\* handleSubmit of RequestSessionDialog: the request it builds
submitRequest ==
    /\ form.kind = "request"
    /\ payload = NoPayload
    /\ LET selectedSlot == slotToTimeFormat(form.slot)
       IN  payload' = <<[startTime |-> toISOString(selectedSlot.startDateTime),
                         endTime |-> toISOString(selectedSlot.endDateTime)]>>
    /\ UNCHANGED form
    /\ UNCHANGED notTime

\* handleReschedule of SessionDetailDialog: the strings of the slot as they are
submitReschedule ==
    /\ form.kind = "reschedule"
    /\ payload = NoPayload
    /\ payload' = <<[startTime |-> form.slot.startTime, endTime |-> form.slot.endTime]>>
    /\ UNCHANGED form
    /\ UNCHANGED notTime

\* handleSubmit of TeacherScheduleSessionDialog: the request it builds
submitSchedule ==
    /\ form.kind = "schedule"
    /\ payload = NoPayload
    /\ LET startDateTime ==
               IF form.selectedDate # NoDate /\ form.selectedTime # NoDate
               THEN localDate(form.selectedDate, form.selectedTime, form.offset)
               ELSE nextMinute(form.clock)
       IN  payload' = <<[startTime |-> toISOString(startDateTime),
                         endTime |-> toISOString(endDateTime(startDateTime))]>>
    /\ UNCHANGED form
    /\ UNCHANGED notTime

\* the dialog closes
closeForm ==
    /\ form # NoForm
    /\ form' = NoForm
    /\ payload' = NoPayload
    /\ UNCHANGED notTime

NextTimes ==
    \/ fill
    \/ submitRequest
    \/ submitReschedule
    \/ submitSchedule
    \/ closeForm

SpecTimes == Init /\ [][NextTimes]_vars

(***************************************************************************)
(* MonthView and DaySessionsDialog.                                        *)
(***************************************************************************)
\* getSessionsForDate: the sessions of the list whose startTime is on the day
getSessionsForDate(list, day) == {i \in SessionIds : list[i] = day}

\* a cell that renders every session of its day
inlineEntries_All(daySessions) == daySessions

\* daySessions.slice(0, 3): the first three in the order of the list
inlineEntries(daySessions) ==
    {i \in daySessions : Cardinality({j \in daySessions : j < i}) < 3}

\* daySessions.length > 3: the cell renders the "+N more" button
moreButton(daySessions) == Cardinality(daySessions) > 3

\* the N of "+N more"
moreCount(daySessions) == Cardinality(daySessions) - 3

\* {sessions.length} of the description of DaySessionsDialog
dialogCount == Cardinality(selectedDaySessions.sessions)

\* the calendar query brings a new list, in which a session has appeared,
\* gone or moved to another day; the open day dialog keeps the list it was
\* opened with
MonthFetch ==
    /\ \E i \in SessionIds :
           \E day \in (CellDays \cup {NoDate}) \ {sessions[i]} :
               sessions' = [sessions EXCEPT ![i] = day]
    /\ UNCHANGED selectedDaySessions
    /\ UNCHANGED notMonth

\* the "+N more" button of the cell of a day
onDaySessionsClick ==
    \E day \in CellDays :
        /\ selectedDaySessions = NoDaySessions
        /\ moreButton(getSessionsForDate(sessions, day))
        /\ selectedDaySessions' =
               [date |-> day, sessions |-> getSessionsForDate(sessions, day)]
        /\ UNCHANGED sessions
        /\ UNCHANGED notMonth

\* onOpenChange(false) of DaySessionsDialog
closeDaySessions ==
    /\ selectedDaySessions # NoDaySessions
    /\ selectedDaySessions' = NoDaySessions
    /\ UNCHANGED sessions
    /\ UNCHANGED notMonth

NextMonth ==
    \/ MonthFetch
    \/ onDaySessionsClick
    \/ closeDaySessions

SpecMonth == Init /\ [][NextMonth]_vars

(***************************************************************************)
(* The link to the meeting in SessionDetailDialog, DaySessionsDialog and   *)
(* the list of LiveSessionsPage.                                           *)
(***************************************************************************)
\* the comparison of the date parts of session.startTime with new Date()
sameDay(startTime, d) == startTime = d

\* isSessionToday as the view v has it at a render on day d: the detail
\* dialog reads its memo, the other two views compare anew
todayOf(v, p, memo, d) ==
    IF v = "detail" THEN memo ELSE sameDay(p.startTime, d)

\* the condition under which the view renders the link
render(v, p, memo, d) ==
    /\ p.meetingLink
    /\ p.status \in {"scheduled", "ongoing"}
    /\ todayOf(v, p, memo, d)

\* the view v mounts with the session of the lists; the detail dialog
\* computes its memo
Open ==
    \E v \in Views :
        /\ view = None
        /\ view' = v
        /\ prop' = listed
        /\ isSessionToday' = (v = "detail" /\ sameDay(listed.startTime, clock))
        /\ joinLink' = render(v, prop', isSessionToday', clock)
        /\ UNCHANGED <<clock, listed>>
        /\ UNCHANGED notJoin

\* the view unmounts
Close ==
    /\ view # None
    /\ view' = None
    /\ prop' = NoProp
    /\ isSessionToday' = FALSE
    /\ joinLink' = FALSE
    /\ UNCHANGED <<clock, listed>>
    /\ UNCHANGED notJoin

\* a fetch of the lists brings the session as the service has it now.  The
\* list renders the new object; the two dialogs of CalendarPage keep the
\* object they were opened with (selectedSession, selectedDaySessions) and
\* render again with their page; the memo of the detail dialog depends on
\* session.startTime only and stays
Fetch ==
    \E s \in SessionProps :
        /\ listed' = s
        /\ prop' = IF view = "list" THEN s ELSE prop
        /\ joinLink' = (view # None /\ render(view, prop', isSessionToday, clock))
        /\ UNCHANGED <<clock, view, isSessionToday>>
        /\ UNCHANGED notJoin

\* a change of state renders the open view again
Rerender ==
    /\ view # None
    /\ joinLink' = render(view, prop, isSessionToday, clock)
    /\ UNCHANGED <<clock, listed, view, prop, isSessionToday>>
    /\ UNCHANGED notJoin

\* the day ends; nothing renders
Midnight ==
    /\ clock < today + MaxNights
    /\ clock' = clock + 1
    /\ UNCHANGED <<listed, view, prop, isSessionToday, joinLink>>
    /\ UNCHANGED notJoin

NextJoin ==
    \/ Open
    \/ Close
    \/ Fetch
    \/ Rerender
    \/ Midnight

SpecJoin == Init /\ [][NextJoin]_vars

(***************************************************************************)
(* Properties.                                                             *)
(***************************************************************************)
\* the request r leaves the tab in this step
Sent(r) == r.live = "dialog" /\ CopiesIn(r, net') > CopiesIn(r, net)

\* the status the view that sends r shows for the session
Snapshot(r) ==
    CASE r.origin = "detail" -> selectedSession.status
      [] r.origin = "page" -> page.selectedSession.status
      [] OTHER -> None

\* the toasts of this step tell the end of a mutation of one of the kinds
Ended(kinds) == \E i \in DOMAIN toasts' : toasts'[i].kind \in kinds

Failed == \A i \in DOMAIN toasts' : toasts'[i].type = "error"

\* C1: a session that is not in status requested is never accepted or
\* rejected: a view that shows another status sends no accept or reject, and
\* an accept or reject that reaches the service for such a session (from a
\* stale dialog) ends as an error and leaves the status as it was.
C1_NonRequestedNeverDecided ==
    [][/\ \A r \in BagToSet(net') :
              Sent(r) /\ r.kind \in {"accept", "reject"} => Snapshot(r) = "requested"
       /\ srvStatus # "requested" =>
              /\ srvDecisions' = srvDecisions
              /\ Ended({"accept", "reject"}) => Failed /\ srvStatus' = srvStatus]_vars

\* an accept sent from a stale dialog has ended as a conflict
C1_Witness ==
    /\ srvStatus \in {"rejected", "cancelled"}
    /\ toasts # <<>>
    /\ toasts[1].kind = "accept"
    /\ toasts[1].message = "conflict"

\* C2 as stated: a cancel or reschedule request leaves the tab only while the
\* session is in status requested or scheduled at the service.
C2_DispatchedOnlyForLiveSession ==
    [][\A r \in BagToSet(net') :
           Sent(r) /\ r.kind \in {"cancel", "reschedule"}
               => srvStatus \in {"requested", "scheduled"}]_vars

\* C2 amended: a cancel or reschedule request leaves the tab only from a view
\* whose copy of the session shows requested or scheduled; when the session
\* has reached a terminal state meanwhile the call ends as an error and the
\* status stays.
C2_DispatchedOnlyFromLiveSnapshot ==
    [][/\ \A r \in BagToSet(net') :
              Sent(r) /\ r.kind \in {"cancel", "reschedule"}
                  => Snapshot(r) \in {"requested", "scheduled"}
       /\ srvStatus \notin {"requested", "scheduled"} /\ Ended({"cancel", "reschedule"})
              => Failed /\ srvStatus' = srvStatus]_vars

\* a cancel or reschedule is in flight from a dialog that shows the session
\* as requested or scheduled while the service holds it in a terminal state
C2_Witness ==
    /\ srvStatus \in {"rejected", "cancelled"}
    /\ selectedSession.status \in {"requested", "scheduled"}
    /\ \E r \in InFlight : r.kind \in {"cancel", "reschedule"} /\ r.live = "dialog"

\* C3: a cancel or reschedule request is only sent by the student who
\* requested the session or by the teacher assigned to it.
C3_OnlyParticipantsCancelOrReschedule ==
    \A r \in InFlight :
        r.kind \in {"cancel", "reschedule"} => user \in {requestedBy, teacher}

\* the assigned teacher has sent a cancel
C3_Witness ==
    /\ user = teacher
    /\ \E r \in InFlight : r.kind = "cancel"

\* C4: of the accept and reject calls that race for the session at most one
\* takes effect, and the call of this tab that loses ends with error toasts.
C4_RaceHasOneWinner ==
    [][/\ srvDecisions' <= 1
       /\ \A r \in InFlight :
              /\ r.kind \in {"accept", "reject"}
              /\ srvStatus # "requested"
              /\ net' = net (-) SetToBag({r})
              => toasts' # <<>> /\ Failed /\ srvDecisions' = srvDecisions]_vars

\* another actor accepted first: the reject of this tab ended as a conflict
C4_Witness ==
    /\ srvDecisions = 1
    /\ srvStatus = "scheduled"
    /\ toasts # <<>>
    /\ toasts[1] = [type |-> "error", kind |-> "reject", message |-> "conflict"]

\* the kinds of request that act on the booked session
SessionKinds == {"accept", "reject", "cancel", "reschedule"}

\* C5: while an accept, reject, cancel or reschedule request is in flight no
\* second request of the same kind leaves the tab for the session.
C5_NoSecondDispatchWhileInFlight ==
    [][\A r \in BagToSet(net') :
           Sent(r) /\ r.kind \in SessionKinds
           => \A q \in InFlight : q.kind # r.kind]_vars

C7_RescheduleCarriesSlot ==
    \A r \in InFlight :
        r.kind = "reschedule"
        => r.slot # NoSlot /\ \E d \in Days : r.slot \in ServerSlots(d)

\* a reschedule with the slot offered for the day of the session has been sent
C7_Witness ==
    /\ \E r \in InFlight : r.kind = "reschedule" /\ r.slot.day = sessionDay
    /\ detail.isRescheduleDialogOpen
    /\ detail.selectedRescheduleSlot # NoSlot

\* C8: a reject or cancel request in flight carries a reason of at least
\* ReasonMinLength characters, and no such request leaves the tab in a step
\* that starts with a shorter reason in the open dialog.
C8_ShortReasonNeverSent ==
    [][\A r \in BagToSet(net') :
           r.kind \in {"reject", "cancel"}
           => /\ r.reason.len >= ReasonMinLength
              /\ Sent(r) /\ r.origin = "detail" /\ r.kind = "reject"
                 => trim(detail.rejectionReason).len >= ReasonMinLength
              /\ Sent(r) /\ r.origin = "detail" /\ r.kind = "cancel"
                 => trim(detail.cancellationReason).len >= ReasonMinLength
              /\ Sent(r) /\ r.origin = "page"
                 => trim(page.rejectionReason).len >= ReasonMinLength]_vars

\* a reason of twelve characters, nine without its blanks, stands in the open
\* cancel dialog and nothing has been sent
C8_Witness ==
    /\ detail.isCancelDialogOpen
    /\ detail.cancellationReason.len >= ReasonMinLength
    /\ trim(detail.cancellationReason).len = ReasonMinLength - 1
    /\ net = EmptyBag

C10_SuccessInvalidatesEveryList ==
    [][toasts' # <<>> /\ toasts'[1].type = "success"
       => \A b \in Buckets :
              cache[b].data # None
              => \/ cache'[b].invalid
                 \/ b = ActiveBucket(route) /\ cache'[b].data = Fetched(b, srvStatus')]_vars

\* a mutation of the tab ends in this step
Settles == BagCardinality(net') < BagCardinality(net)

\* a mutation of the tab ends in this step otherwise than with a success toast
Fails == Settles /\ ~(toasts' # <<>> /\ toasts'[1].type = "success")

\* the failure of this step puts a field error into the open request dialog
FieldErrorSet ==
    \E r \in InFlight :
        /\ r.origin = "request"
        /\ r.live = "dialog"
        /\ net' = net (-) SetToBag({r})
        /\ request'.errors # {}

\* the number of error surfaces the step shows: its toasts and the field
\* errors it sets
ErrorSurfaces == Len(toasts') + (IF FieldErrorSet THEN 1 ELSE 0)

\* C11: a step in which a mutation fails shows the user exactly one error
\* surface, a field error or one toast, never none and never two.
C11_ExactlyOneErrorSurface ==
    [][Fails => ErrorSurfaces = 1]_vars

\* C12: a failure whose answer names a field sets the field error of the
\* request dialog and raises no toast.
C12_FieldErrorRaisesNoToast ==
    [][Fails /\ FieldErrorSet => toasts' = <<>>]_vars

C14_Every401ClearsAndRedirects ==
    response.status = 401 => ~token /\ (pathname = "/login" \/ timers > 0)

\* C15: any two revocation toasts of a page are more than
\* SESSION_NOTICE_COOLDOWN_MS apart.
C15_OneNoticePerCooldown ==
    \A i, j \in DOMAIN notices :
        i < j => notices[j] - notices[i] > SESSION_NOTICE_COOLDOWN_MS

\* a revoked 401 has just been handled on the login page exactly a cooldown
\* after the one that raised the toast, and has raised none
C15_Witness ==
    /\ response = [status |-> 401, code |-> SESSION_REVOKED_CODE]
    /\ Len(notices) = 1
    /\ now - notices[1] = SESSION_NOTICE_COOLDOWN_MS
    /\ pathname = "/login"

Sunday(d) == d # NoDate /\ d % 7 = 0

\* C16: while a Sunday is the date of the open request dialog no call for
\* that date is on its way, neither the fetch of its slots nor a session
\* request, and the date error the form shows for a Sunday that is not before
\* the minimum date is the Sunday message.
C16_SundayRejectedWithoutCall ==
    request.open /\ Sunday(request.selectedDate)
    => /\ ~(slotsQuery.status = "loading" /\ slotsQuery.key = request.selectedDate)
       /\ \A r \in InFlight : r.kind = "request" => ~Sunday(r.slot.day)
       /\ request.selectedDate >= request.minDate
          => \A e \in request.errors :
                 e[1] = "date" => e[2] = "Sessions cannot be scheduled on Sundays"

\* the later of tomorrow and the day after the program start, Sundays skipped
earliest(start) ==
    LET minDate == skipSunday(start + 1)
        tomorrow == skipSunday(today + 1)
    IN  IF minDate < tomorrow THEN tomorrow ELSE minDate

\* C17: the minimum date and the date the request dialog opens with are the
\* later of tomorrow and the day after the program start, Sundays skipped,
\* and no session request leaves the tab for a day before it.
C17_EarliestDateIsTheMinimum ==
    [][/\ request'.open /\ ~request.open
           => /\ request'.minDate = earliest(request'.programStartDate)
              /\ request'.selectedDate = earliest(request'.programStartDate)
       /\ \A r \in BagToSet(net') :
              Sent(r) /\ r.kind = "request"
              => r.slot.day >= earliest(request.programStartDate)]_vars

\* the fetch of the slots has come back with an empty list
ZeroSlots == slotsQuery.status = "ok" /\ ServerSlots(slotsQuery.key) = {}

C19_FailedFetchNotShownAsEmpty ==
    slotsError => "empty" \notin slotsSection \cup rescheduleSection

\* C20: while a view shows the link to the meeting the session it shows is
\* scheduled or ongoing and starts on the current day.
C20_JoinLinkOnlyTodayAndLive ==
    joinLink
    => /\ prop.status \in {"scheduled", "ongoing"}
       /\ prop.startTime = clock

\* what the month grid and the day dialog make reachable of a day
Reachable(list, selected, day) ==
    inlineEntries(getSessionsForDate(list, day))
    \cup (IF selected.date = day THEN selected.sessions ELSE {})

C22_EndFollowsStart ==
    \A i \in 1..Len(payload) : After(payload[i].endTime, payload[i].startTime)

\* a session scheduled by the teacher late in the evening was sent: its end is
\* on the next day, at an earlier time of day than its start
C22_Witness ==
    /\ form.kind = "schedule"
    /\ payload # NoPayload
    /\ payload[1].endTime.date = payload[1].startTime.date + 1
    /\ payload[1].endTime.time < payload[1].startTime.time

\* C23: the result of an enrollment request that was cancelled, by a change
\* of user or by the unmount, writes neither enrollment nor error.
C23_CancelledResultIsDiscarded ==
    [][\A i \in inFlight(fetches) :
          (fetches[i].cancelled \/ ~isMountedRef) /\ fetches'[i].settled
             => enrollment' = enrollment /\ error' = error]_vars

\* the request of s1 was cancelled by the switch to s2 and settled after the
\* request of s2: enrollment is still that of s2
C23_Witness ==
    /\ Len(fetches) = 2
    /\ fetches[1].user = "s1" /\ fetches[1].cancelled /\ fetches[1].settled
    /\ fetches[2].user = "s2" /\ ~fetches[2].cancelled /\ fetches[2].settled
    /\ authUser = "s2"
    /\ enrollment = "s2"
    /\ mounted = "mounted"

\* C27: the hook never has two enrollment fetches in flight at a time.
C27_OneFetchInFlight == Cardinality(inFlight(fetches)) <= 1

\* C28: while the component is mounted, once no fetch is in flight whose
\* result the hook will apply, loading becomes false.
C28_LoadingEnds ==
    (mounted = "mounted" /\ \A i \in inFlight(fetches) : ~applies(fetches[i]))
        ~> (~loading \/ mounted # "mounted")

\* the counter is the number of flagged requests in flight
CounterIsPending == activeOverlayRequests = overlayPending

\* C29: the overlay counter is the number of requests in flight that carry
\* showLoadingOverlay, and the overlay is visible exactly while there is one.
C29_OverlayTracksRequests ==
    /\ CounterIsPending
    /\ isVisible <=> overlayPending > 0

\* C30: the search of the list query changes only when 500 ms have passed
\* since the last input, and then to the latest text; every input leaves one
\* timeout set, that of the new text.
C30_SearchIsDebounced ==
    [][/\ (querySearch' # querySearch \/ debouncedSearchQuery' # debouncedSearchQuery)
          => /\ msNow - lastInputAt >= DebounceDelay
             /\ debouncedSearchQuery' = searchQuery
             /\ querySearch' = search(searchQuery)
       /\ searchQuery' # searchQuery
          => timers500' = {[due |-> msNow + DebounceDelay, text |-> searchQuery']}]_vars

\* C30 as amended: the same, except that a step that empties the text and
\* the debounced text together (the clear buttons) changes the search at once.
C30_TypingIsDebounced ==
    [][/\ (querySearch' # querySearch \/ debouncedSearchQuery' # debouncedSearchQuery)
          => \/ /\ msNow - lastInputAt >= DebounceDelay
                /\ debouncedSearchQuery' = searchQuery
                /\ querySearch' = search(searchQuery)
                /\ searchQuery' = searchQuery
             \/ /\ searchQuery' = ""
                /\ debouncedSearchQuery' = ""
                /\ querySearch' = search("")
       /\ searchQuery' # searchQuery
          => timers500' = {[due |-> msNow + DebounceDelay, text |-> searchQuery']}]_vars

\* "ab" was typed 250 ms after "a" and is the search of the query: "a" was
\* never dispatched, as the only moment for it was before 500 ms
C30_Witness ==
    /\ lastInputAt = 250
    /\ searchQuery = "ab"
    /\ debouncedSearchQuery = "ab"
    /\ querySearch = "ab"
    /\ timers500 = {}
    /\ msNow = 750

\* an accept or reject of this tab has just failed with a conflict
LostRace ==
    \E i \in 1..Len(toasts) :
        /\ toasts[i].type = "error"
        /\ toasts[i].kind \in {"accept", "reject"}
        /\ toasts[i].message = "conflict"

\* the tab shows the session as requested: in the list of the mounted page,
\* in the detail dialog or in a dialog of the requests page
PresentsRequested ==
    \/ ActiveBucket(route) # None /\ cache[ActiveBucket(route)].data = "requested"
    \/ selectedSession.status = "requested"
    \/ page.selectedSession.status = "requested"

\* C24: after an accept or reject of this tab has failed with a conflict the
\* tab fetches the lists again and stops showing the session as requested.
C24_LoserViewCatchesUp == LostRace ~> ~PresentsRequested

RescheduleDateSet ==
    /\ canCancelOrReschedule
    /\ detail.isRescheduleDialogOpen
    /\ detail.rescheduleDate # NoDate

\* C26: while the reschedule dialog of a permitted user is open with a date,
\* the slots of that date are fetched: the query settles, unless the dialog
\* is closed or the date is emptied first.
C26_SlotsAreFetched ==
    RescheduleDateSet
        ~> \/ slotsQuery.key = detail.rescheduleDate /\ slotsQuery.status \in {"ok", "error"}
           \/ ~RescheduleDateSet

====
